---- MODULE Spec2Model ----
(***************************************************************************)
(* CybermodelViewer (cybertruck/js/cybermodel.js): a controller object     *)
(* that loads one glTF model, frames a camera on its bounding box and      *)
(* turns pointer, button, resize and frame events into rotation updates.   *)
(*                                                                         *)
(* Angles are counted in units of the rotation step 0.005 rad, so that     *)
(* `rotation.y += deltaX * 0.005` adds deltaX and `rotation.y += 0.005`    *)
(* adds 1.  Lengths of the bounding box are fixed-point numbers.           *)
(***************************************************************************)
EXTENDS Integers, FiniteSets, Sequences, TLC

\* ------------------------------------------------------------------ bounds
\* Pointer coordinates (clientX, clientY) range over 0..MaxCoord.
MaxCoord == 1
\* Rotation angles are explored within -MaxRot..MaxRot steps.
MaxRot == 1

\* ------------------------------------------------------- program constants
\* Fixed-point unit: cos(k steps) ~ Unit, sin(k steps) ~ k  (0.005 rad = 1/200).
Unit == 200
\* cameraZ * 1.8 = maxDim * 1.8 / (2 * tan(fov/2)), fov = 45 degrees, per mille.
CamFactor == 2173
\* Half extents and height of the centre of the loaded mesh.
HalfX == 2
HalfY == 1
HalfZ == 4
CentreY == 1

VARIABLES
    stage,              \* "constructed" after `new CybermodelViewer()`, then "running"
    isAutoRotating,     \* this.isAutoRotating
    isDragging,         \* this.isDragging
    previousPosition,   \* this.previousPosition
    model,              \* this.model: "undefined" or "gltf.scene"
    rotation,           \* this.model.rotation, in steps
    sceneModels,        \* how many times the model was added to this.scene
    camera,             \* this.camera: position, lookAt target, aspect
    rendererSize,       \* size given to this.renderer.setSize
    containerRect,      \* this.container.getBoundingClientRect()
    loadingIndicator,   \* this.loadingIndicator: style.display and textContent
    loader,             \* the GLTFLoader request: requests issued, in flight, callbacks run
    pendingFrames,      \* frame callbacks requested and not yet run
    listeners,          \* the event listeners registered and not removed
    renderer,           \* this.renderer: disposed, canvas attached, used once disposed
    watch,              \* which history is kept: "events" (last) or "drags" (tally)
    last,               \* history: the handler that ran last and whether it threw
    tally               \* history: the drags and auto-rotation frames since the
                        \* model was loaded or the view was last reset

vars == <<stage, isAutoRotating, isDragging, previousPosition, model, rotation,
          sceneModels, camera, rendererSize, containerRect, loadingIndicator,
          loader, pendingFrames, listeners, renderer, watch, last, tally>>

\* ---------------------------------------------------------------- helpers
Abs(n) == IF n < 0 THEN -n ELSE n

Max3(a, b, c) == IF a >= b /\ a >= c THEN a ELSE IF b >= c THEN b ELSE c

\* Pointer positions the host can report: the points of the two axes.
Positions == {p \in [x : 0..MaxCoord, y : 0..MaxCoord] : p.x = 0 \/ p.y = 0}

\* Sizes the container can have (width, height).
Sizes == {<<4, 3>>, <<2, 1>>}

InRange(rot) == Abs(rot.x) <= MaxRot /\ Abs(rot.y) <= MaxRot

\* new THREE.Box3().setFromObject(this.model): the axis-aligned box of the mesh
\* (half extents HalfX, HalfY, HalfZ around (0, CentreY, 0)) under the model's
\* current Euler rotation R = Rx(rot.x) * Ry(rot.y); lengths scaled by Unit^2.
Box3(rot) ==
    LET sa == Abs(rot.x)
        sb == Abs(rot.y)
        ex == Unit * Unit * HalfX + sb * Unit * HalfZ
        ey == sa * sb * HalfX + Unit * Unit * HalfY + sa * Unit * HalfZ
        ez == Unit * sb * HalfX + sa * Unit * HalfY + Unit * Unit * HalfZ
    IN  [size   |-> [x |-> 2 * ex, y |-> 2 * ey, z |-> 2 * ez],
         center |-> [x |-> 0, y |-> Unit * Unit * CentreY, z |-> rot.x * Unit * CentreY]]

\* fitModelToContainer(): the camera placed from the box of the model as it is
\* rotated now; y in tenths, z in thousandths of the scaled length.
FitCamera(cam, rot) ==
    LET box == Box3(rot)
        maxDim == Max3(box.size.x, box.size.y, box.size.z)
    IN  [cam EXCEPT !.position = [x |-> 0, y |-> box.size.y * 3, z |-> maxDim * CamFactor],
                    !.lookAt = box.center]

\* updateRendererSize(): the aspect is kept as the pair width / height.
UpdateAspect(cam, rect) == [cam EXCEPT !.aspect = rect]

\* The listeners added by setupControls and setupEventListeners.
AllListeners ==
    {"reset-view", "toggle-rotation", "mousedown", "mousemove", "mouseup",
     "touchstart", "touchmove", "touchend", "resize"}

\* this.renderer.render(this.scene, this.camera).
Render(r) == [r EXCEPT !.usedDisposed = @ \/ r.disposed]

\* last, kept when the events are watched.
Ran(ev) == IF watch = "events" THEN [ev |-> ev, threw |-> FALSE] ELSE last
Threw(ev) == IF watch = "events" THEN [ev |-> ev, threw |-> TRUE] ELSE last

\* ----------------------------------------------------------------- history
\* tally records what the pointer and the frame loop did, from the events alone:
\*   press  where the current drag was pressed,
\*   from   where the current drag counts from: its press position, or the last
\*          pointer position recorded when the view was reset or the model
\*          loaded in the middle of the drag,
\*   final  where the current drag's last handled move was, and moved whether
\*          there was one since the press, the reset or the load,
\*   acc    the steps contributed by the finished drags (final minus from)
\*          plus one about y per auto-rotation frame.
Zero == [x |-> 0, y |-> 0]

\* A pointer displacement as rotation steps: x moves turn about y, y moves about x.
Turn(a, b) == [x |-> b.y - a.y, y |-> b.x - a.x]

Plus(u, v) == [x |-> u.x + v.x, y |-> u.y + v.y]

\* What the current drag contributes, measured from its press position.
HeldFromPress(t) == IF t.moved THEN Turn(t.press, t.final) ELSE Zero

\* What the current drag contributes, measured from where it counts from.
HeldFrom(t) == IF t.moved THEN Turn(t.from, t.final) ELSE Zero

\* tally, kept when the drags are watched.
Kept(t) == IF watch = "drags" THEN t ELSE tally

TallyPress(t, p) ==
    [press |-> p, from |-> p, final |-> p, moved |-> FALSE,
     acc |-> Plus(t.acc, HeldFrom(t))]

TallyMove(t, p) == [t EXCEPT !.final = p, !.moved = TRUE]

TallyFrame(t) == [t EXCEPT !.acc = Plus(@, [x |-> 0, y |-> 1])]

\* The view was reset or the model loaded: the count starts again; a drag in
\* progress keeps its press position and counts on from the recorded position.
TallyEpoch(t, dragging, recorded) ==
    [press |-> IF dragging THEN t.press ELSE recorded,
     from |-> recorded, final |-> recorded, moved |-> FALSE, acc |-> Zero]

\* ------------------------------------------------------------------- init
\* The state when `new CybermodelViewer()` returns: initScene, loadModel,
\* setupControls and setupEventListeners have run.
Constructed ==
    /\ stage = "constructed"
    /\ isAutoRotating = FALSE
    /\ isDragging = FALSE
    /\ previousPosition = [x |-> 0, y |-> 0]
    /\ model = "undefined"
    /\ rotation = [x |-> 0, y |-> 0, z |-> 0]
    /\ sceneModels = 0
    /\ containerRect \in Sizes
    /\ rendererSize = containerRect
    /\ camera = [position |-> [x |-> 0, y |-> 0, z |-> 0],
                 lookAt |-> [x |-> 0, y |-> 0, z |-> -1],
                 aspect |-> containerRect]
    /\ loadingIndicator = [display |-> "block", textContent |-> "initial"]
    /\ loader = [requests |-> 1, inFlight |-> 1, onLoad |-> 0, onError |-> 0]
    /\ pendingFrames = 0
    /\ listeners = AllListeners
    /\ renderer = [disposed |-> FALSE, attached |-> TRUE, usedDisposed |-> FALSE]
    /\ last = [ev |-> "constructor", threw |-> FALSE]
    /\ tally = TallyEpoch([press |-> Zero], FALSE, Zero)

\* Init watches the events, InitTally the drags.
Init == Constructed /\ watch = "events"

InitTally == Constructed /\ watch = "drags"

\* ---------------------------------------------------------------- actions
\* cybermodelViewer.animate() at the module top level.
Start ==
    /\ stage = "constructed"
    /\ stage' = "running"
    /\ UNCHANGED <<watch, listeners>>
    /\ renderer' = Render(renderer)
    /\ pendingFrames' = pendingFrames + 1
    /\ last' = Ran("animate")
    /\ UNCHANGED <<isAutoRotating, isDragging, previousPosition, model, rotation,
                   sceneModels, camera, rendererSize, containerRect,
                   loadingIndicator, loader, tally>>

\* A frame callback that takes the auto-rotation step whatever the flag says.
AnimateFrameAlways ==
    /\ stage = "running"
    /\ UNCHANGED <<watch, listeners>>
    /\ renderer' = IF isAutoRotating /\ model = "undefined" THEN renderer ELSE Render(renderer)
    /\ pendingFrames > 0
    /\ pendingFrames' = (pendingFrames - 1) + 1
    /\ IF model = "undefined"
       THEN /\ last' = IF isAutoRotating THEN Threw("frame") ELSE Ran("frame")
            /\ UNCHANGED <<rotation, tally>>
       ELSE /\ rotation' = [rotation EXCEPT !.y = @ + 1]
            /\ InRange(rotation')
            /\ last' = Ran("frame")
            /\ tally' = Kept(TallyFrame(tally))
    /\ UNCHANGED <<stage, isAutoRotating, isDragging, previousPosition, model,
                   sceneModels, camera, rendererSize, containerRect,
                   loadingIndicator, loader>>

\* A frame callback that requests the next frame after its body, so that a
\* failing body requests none.
AnimateFrameLate ==
    /\ stage = "running"
    /\ UNCHANGED <<watch, listeners>>
    /\ renderer' = IF isAutoRotating /\ model = "undefined" THEN renderer ELSE Render(renderer)
    /\ pendingFrames > 0
    /\ IF isAutoRotating
       THEN IF model = "undefined"
            THEN /\ last' = Threw("frame")
                 /\ pendingFrames' = pendingFrames - 1
                 /\ UNCHANGED <<rotation, tally>>
            ELSE /\ rotation' = [rotation EXCEPT !.y = @ + 1]
                 /\ InRange(rotation')
                 /\ last' = Ran("frame")
                 /\ pendingFrames' = (pendingFrames - 1) + 1
                 /\ tally' = Kept(TallyFrame(tally))
       ELSE /\ last' = Ran("frame")
            /\ pendingFrames' = (pendingFrames - 1) + 1
            /\ UNCHANGED <<rotation, tally>>
    /\ UNCHANGED <<stage, isAutoRotating, isDragging, previousPosition, model,
                   sceneModels, camera, rendererSize, containerRect,
                   loadingIndicator, loader>>

\* animate() run as a frame callback: the next frame is requested first, then
\* the auto-rotation step dereferences this.model.
AnimateFrame ==
    /\ stage = "running"
    /\ UNCHANGED <<watch, listeners>>
    /\ renderer' = IF isAutoRotating /\ model = "undefined" THEN renderer ELSE Render(renderer)
    /\ pendingFrames > 0
    /\ pendingFrames' = (pendingFrames - 1) + 1
    /\ IF isAutoRotating
       THEN IF model = "undefined"
            THEN /\ last' = Threw("frame")
                 /\ UNCHANGED <<rotation, tally>>
            ELSE /\ rotation' = [rotation EXCEPT !.y = @ + 1]
                 /\ InRange(rotation')
                 /\ last' = Ran("frame")
                 /\ tally' = Kept(TallyFrame(tally))
       ELSE /\ last' = Ran("frame")
            /\ UNCHANGED <<rotation, tally>>
    /\ UNCHANGED <<stage, isAutoRotating, isDragging, previousPosition, model,
                   sceneModels, camera, rendererSize, containerRect,
                   loadingIndicator, loader>>

\* A completion callback that leaves the loading indicator displayed.
LoadCompleteKeepsIndicator ==
    /\ stage = "running"
    /\ UNCHANGED <<watch, listeners, renderer>>
    /\ loader.inFlight > 0
    /\ loader' = [loader EXCEPT !.inFlight = @ - 1, !.onLoad = @ + 1]
    /\ model' = "gltf.scene"
    /\ rotation' = [x |-> 0, y |-> 0, z |-> 0]
    /\ sceneModels' = sceneModels + 1
    /\ camera' = FitCamera(camera, rotation')
    /\ last' = Ran("load")
    /\ tally' = Kept(TallyEpoch(tally, isDragging, previousPosition))
    /\ UNCHANGED <<stage, isAutoRotating, isDragging, previousPosition,
                   rendererSize, containerRect, pendingFrames, loadingIndicator>>

\* The loader's completion callback.
LoadComplete ==
    /\ stage = "running"
    /\ UNCHANGED <<watch, listeners, renderer>>
    /\ loader.inFlight > 0
    /\ loader' = [loader EXCEPT !.inFlight = @ - 1, !.onLoad = @ + 1]
    /\ model' = "gltf.scene"
    /\ rotation' = [x |-> 0, y |-> 0, z |-> 0]
    /\ sceneModels' = sceneModels + 1
    /\ camera' = FitCamera(camera, rotation')
    /\ loadingIndicator' = [loadingIndicator EXCEPT !.display = "none"]
    /\ last' = Ran("load")
    /\ tally' = Kept(TallyEpoch(tally, isDragging, previousPosition))
    /\ UNCHANGED <<stage, isAutoRotating, isDragging, previousPosition,
                   rendererSize, containerRect, pendingFrames>>

\* An error callback that also hides the loading indicator.
LoadErrorHides ==
    /\ stage = "running"
    /\ UNCHANGED <<watch, listeners, renderer>>
    /\ loader.inFlight > 0
    /\ loader' = [loader EXCEPT !.inFlight = @ - 1, !.onError = @ + 1]
    /\ loadingIndicator' = [display |-> "none", textContent |-> "Error loading model"]
    /\ last' = Ran("error")
    /\ UNCHANGED <<stage, isAutoRotating, isDragging, previousPosition, model,
                   rotation, sceneModels, camera, rendererSize, containerRect,
                   pendingFrames, tally>>

\* An error callback that asks for the asset again.
LoadErrorRetries ==
    /\ stage = "running"
    /\ UNCHANGED <<watch, listeners, renderer>>
    /\ loader.inFlight > 0
    /\ loader.requests < 2
    /\ loader' = [loader EXCEPT !.requests = @ + 1, !.onError = @ + 1]
    /\ loadingIndicator' = [loadingIndicator EXCEPT !.textContent = "Error loading model"]
    /\ last' = Ran("error")
    /\ UNCHANGED <<stage, isAutoRotating, isDragging, previousPosition, model,
                   rotation, sceneModels, camera, rendererSize, containerRect,
                   pendingFrames, tally>>

\* The loader's error callback.
LoadError ==
    /\ stage = "running"
    /\ UNCHANGED <<watch, listeners, renderer>>
    /\ loader.inFlight > 0
    /\ loader' = [loader EXCEPT !.inFlight = @ - 1, !.onError = @ + 1]
    /\ loadingIndicator' = [loadingIndicator EXCEPT !.textContent = "Error loading model"]
    /\ last' = Ran("error")
    /\ UNCHANGED <<stage, isAutoRotating, isDragging, previousPosition, model,
                   rotation, sceneModels, camera, rendererSize, containerRect,
                   pendingFrames, tally>>

\* A reset that also stops the auto-rotation and the drag in progress.
ResetViewStops ==
    /\ stage = "running"
    /\ "reset-view" \in listeners
    /\ UNCHANGED <<watch, listeners, renderer>>
    /\ IF model = "undefined"
       THEN /\ last' = Threw("reset")
            /\ UNCHANGED <<camera, rotation, tally, isAutoRotating, isDragging>>
       ELSE /\ camera' = FitCamera(camera, rotation)
            /\ rotation' = [x |-> 0, y |-> 0, z |-> 0]
            /\ isAutoRotating' = FALSE
            /\ isDragging' = FALSE
            /\ last' = Ran("reset")
            /\ tally' = Kept(TallyEpoch(tally, FALSE, previousPosition))
    /\ UNCHANGED <<stage, previousPosition, model, sceneModels, rendererSize,
                   containerRect, loadingIndicator, loader, pendingFrames>>

\* Click on #reset-view: fitModelToContainer() and then rotation.set(0, 0, 0).
ResetView ==
    /\ stage = "running"
    /\ "reset-view" \in listeners
    /\ UNCHANGED <<watch, listeners, renderer>>
    /\ IF model = "undefined"
       THEN /\ last' = Threw("reset")
            /\ UNCHANGED <<camera, rotation, tally>>
       ELSE /\ camera' = FitCamera(camera, rotation)
            /\ rotation' = [x |-> 0, y |-> 0, z |-> 0]
            /\ last' = Ran("reset")
            /\ tally' = Kept(TallyEpoch(tally, isDragging, previousPosition))
    /\ UNCHANGED <<stage, isAutoRotating, isDragging, previousPosition, model,
                   sceneModels, rendererSize, containerRect, loadingIndicator,
                   loader, pendingFrames>>

\* Click on #toggle-rotation.
ToggleRotation ==
    /\ stage = "running"
    /\ "toggle-rotation" \in listeners
    /\ UNCHANGED <<watch, listeners, renderer>>
    /\ isAutoRotating' = ~isAutoRotating
    /\ last' = Ran("toggle")
    /\ UNCHANGED <<stage, isDragging, previousPosition, model, rotation,
                   sceneModels, camera, rendererSize, containerRect,
                   loadingIndicator, loader, pendingFrames, tally>>

\* onMouseDown / onTouchStart share one body; ev names the listener.
Press(ev, p) ==
    /\ stage = "running"
    /\ ev \in listeners
    /\ UNCHANGED <<watch, listeners, renderer>>
    /\ last' = Ran(ev)
    /\ isDragging' = TRUE
    /\ previousPosition' = p
    /\ tally' = Kept(TallyPress(tally, p))
    /\ UNCHANGED <<stage, isAutoRotating, model, rotation, sceneModels, camera,
                   rendererSize, containerRect, loadingIndicator, loader,
                   pendingFrames>>

\* A move handler without the isDragging test.
MoveUngated(ev, p) ==
    /\ stage = "running"
    /\ ev \in listeners
    /\ UNCHANGED <<watch, listeners, renderer>>
    /\ IF model = "undefined"
       THEN /\ last' = Threw(ev)
            /\ UNCHANGED <<rotation, previousPosition, tally>>
       ELSE /\ rotation' = [rotation EXCEPT
                               !.y = @ + (p.x - previousPosition.x),
                               !.x = @ + (p.y - previousPosition.y)]
            /\ InRange(rotation')
            /\ previousPosition' = p
            /\ last' = Ran(ev)
            /\ tally' = Kept(TallyMove(tally, p))
    /\ UNCHANGED <<stage, isAutoRotating, isDragging, model, sceneModels, camera,
                   rendererSize, containerRect, loadingIndicator, loader,
                   pendingFrames>>

\* A handleRotation that does not record the position it rotated to.
MoveStale(ev, p) ==
    /\ stage = "running"
    /\ ev \in listeners
    /\ UNCHANGED <<watch, listeners, renderer>>
    /\ IF ~isDragging
       THEN /\ last' = Ran(ev)
            /\ UNCHANGED <<rotation, tally>>
       ELSE IF model = "undefined"
            THEN /\ last' = Threw(ev)
                 /\ UNCHANGED <<rotation, tally>>
            ELSE /\ rotation' = [rotation EXCEPT
                                    !.y = @ + (p.x - previousPosition.x),
                                    !.x = @ + (p.y - previousPosition.y)]
                 /\ InRange(rotation')
                 /\ last' = Ran(ev)
                 /\ tally' = Kept(TallyMove(tally, p))
    /\ UNCHANGED <<stage, isAutoRotating, isDragging, previousPosition, model,
                   sceneModels, camera, rendererSize, containerRect,
                   loadingIndicator, loader, pendingFrames>>

\* onMouseMove / onTouchMove: return unless dragging, else handleRotation.
Move(ev, p) ==
    /\ stage = "running"
    /\ ev \in listeners
    /\ UNCHANGED <<watch, listeners, renderer>>
    /\ last' = IF isDragging /\ model = "undefined" THEN Threw(ev) ELSE Ran(ev)
    /\ IF ~isDragging
       THEN UNCHANGED <<rotation, previousPosition, tally>>
       ELSE IF model = "undefined"
            THEN UNCHANGED <<rotation, previousPosition, tally>>
            ELSE /\ rotation' = [rotation EXCEPT
                                    !.y = @ + (p.x - previousPosition.x),
                                    !.x = @ + (p.y - previousPosition.y)]
                 /\ InRange(rotation')
                 /\ previousPosition' = p
                 /\ tally' = Kept(TallyMove(tally, p))
    /\ UNCHANGED <<stage, isAutoRotating, isDragging, model, sceneModels, camera,
                   rendererSize, containerRect, loadingIndicator, loader,
                   pendingFrames>>

\* onMouseUp / onTouchEnd.
Release(ev) ==
    /\ stage = "running"
    /\ ev \in listeners
    /\ UNCHANGED <<watch, listeners, renderer>>
    /\ isDragging' = FALSE
    /\ last' = Ran(ev)
    /\ UNCHANGED <<stage, isAutoRotating, previousPosition, model, rotation,
                   sceneModels, camera, rendererSize, containerRect,
                   loadingIndicator, loader, pendingFrames, tally>>

OnMouseDown == \E p \in Positions : Press("mousedown", p)
OnMouseMove == \E p \in Positions : Move("mousemove", p)
OnMouseUp == Release("mouseup")
OnTouchStart == \E p \in Positions : Press("touchstart", p)
OnTouchMove == \E p \in Positions : Move("touchmove", p)
OnTouchEnd == Release("touchend")

\* onWindowResize(): updateRendererSize() and then fitModelToContainer().
OnWindowResize ==
    /\ stage = "running"
    /\ "resize" \in listeners
    /\ UNCHANGED <<watch, listeners, renderer>>
    /\ last' = IF model = "undefined" THEN Threw("resize") ELSE Ran("resize")
    /\ \E rect \in Sizes :
        /\ containerRect' = rect
        /\ rendererSize' = rect
        /\ camera' = IF model = "undefined"
                     THEN UpdateAspect(camera, rect)
                     ELSE FitCamera(UpdateAspect(camera, rect), rotation)
    /\ UNCHANGED <<stage, isAutoRotating, isDragging, previousPosition, model,
                   rotation, sceneModels, loadingIndicator, loader, pendingFrames,
                   tally>>

Next ==
    \/ Start
    \/ AnimateFrame
    \/ LoadComplete
    \/ LoadError
    \/ ResetView
    \/ ToggleRotation
    \/ OnMouseDown
    \/ OnMouseMove
    \/ OnMouseUp
    \/ OnTouchStart
    \/ OnTouchMove
    \/ OnTouchEnd
    \/ OnWindowResize

Spec == Init /\ [][Next]_vars

\* destroy(): the resize listener is removed, the renderer disposed and its
\* canvas taken out of the container; removeChild throws when the canvas is
\* no longer a child.  Nothing in the page calls it; a host that does is
\* NextDestroy.
Destroy ==
    /\ stage = "running"
    /\ listeners' = listeners \ {"resize"}
    /\ renderer' = [renderer EXCEPT !.disposed = TRUE, !.attached = FALSE]
    /\ last' = IF renderer.attached THEN Ran("destroy") ELSE Threw("destroy")
    /\ UNCHANGED <<stage, isAutoRotating, isDragging, previousPosition, model,
                   rotation, sceneModels, camera, rendererSize, containerRect,
                   loadingIndicator, loader, pendingFrames, watch, tally>>

NextDestroy == Next \/ Destroy

SpecDestroy == Init /\ [][NextDestroy]_vars

SpecTally == InitTally /\ [][Next]_vars

\* The module top level runs to its end, and the host keeps calling the
\* frame callbacks it was asked for.
SpecLive == Init /\ [][Next]_vars /\ WF_vars(Start) /\ WF_vars(AnimateFrame)

\* ----------------------------------------------------------------- claims
Loaded == model = "gltf.scene"

NoRotation == [x |-> 0, y |-> 0, z |-> 0]

\* C1: whatever events the host delivers after construction, no event handler
\* and no frame callback ever fails; the asset-load failure, which the error
\* callback handles, is the only failure.
C1_NoHandlerFails == ~last.threw

\* C2: once the loader's error callback has run, the loading indicator reads
\* 'Error loading model' and is still displayed, and the model is never set
\* nor added to the scene; the error callback itself leaves the drag flag,
\* the last pointer position and the auto-rotate flag as they were.
C2_ErrorIsFinal ==
    /\ [](loader.onError > 0 =>
            /\ loadingIndicator = [display |-> "block",
                                   textContent |-> "Error loading model"]
            /\ model = "undefined"
            /\ sceneModels = 0)
    /\ [][LoadError => UNCHANGED <<isDragging, previousPosition, isAutoRotating>>]_vars

\* C2 witness: the error callback has just run while a drag and the
\* auto-rotation were on.
C2_Witness ==
    /\ last = [ev |-> "error", threw |-> FALSE]
    /\ loader.onError = 1
    /\ isDragging /\ isAutoRotating
    /\ previousPosition # Zero

\* C3: the asset is requested exactly once and the request is never dropped or
\* repeated; each callback runs at most once, so the model is assigned and
\* added to the scene at most once, and no event issues another request.
C3_SingleLoad ==
    /\ loader.requests = 1
    /\ loader.inFlight + loader.onLoad + loader.onError = loader.requests
    /\ loader.onLoad <= 1 /\ loader.onError <= 1
    /\ sceneModels = loader.onLoad
    /\ Loaded <=> loader.onLoad = 1

\* C3 witness: the load failed and the user has clicked reset-view since.
C3_Witness ==
    /\ loader.onError = 1
    /\ loader.inFlight = 0
    /\ last.ev = "reset"

\* C4: a mousemove or touchmove changes the rotation or the last pointer
\* position only if the drag flag is set; the flag is clear at first, is set
\* only by mousedown or touchstart and is cleared by every mouseup and
\* touchend.
C4_DragGating ==
    /\ [](stage = "constructed" => ~isDragging)
    /\ [][(OnMouseMove \/ OnTouchMove) /\ ~isDragging
            => UNCHANGED <<rotation, previousPosition>>]_vars
    /\ [][~isDragging /\ isDragging' => OnMouseDown \/ OnTouchStart]_vars
    /\ [][OnMouseUp \/ OnTouchEnd => ~isDragging']_vars

\* C4 witness: a move arrived after a drag that had turned the loaded model
\* was released.
C4_Witness ==
    /\ last.ev \in {"mousemove", "touchmove"}
    /\ ~isDragging
    /\ Loaded
    /\ rotation.x # 0 /\ rotation.y # 0

\* C5: the auto-rotate flag is clear after construction and every
\* toggle-rotation click negates it; with the model loaded a frame callback
\* adds one step to the y rotation, and nothing to x, when the flag is set, and
\* leaves the rotation alone when it is clear.
C5_AutoRotate ==
    /\ [](stage = "constructed" => ~isAutoRotating)
    /\ [][ToggleRotation => isAutoRotating' = ~isAutoRotating]_vars
    /\ [][AnimateFrame /\ Loaded =>
            rotation' = IF isAutoRotating
                        THEN [rotation EXCEPT !.y = @ + 1]
                        ELSE rotation]_vars

\* C5 witness: frames have turned the loaded model by auto-rotation.
C5_Witness ==
    /\ last = [ev |-> "frame", threw |-> FALSE]
    /\ Loaded /\ isAutoRotating
    /\ rotation.y = MaxRot /\ rotation.x = 0

\* C6: with the model loaded, right after a reset-view click the model's
\* rotation is (0,0,0) and the camera's position and look-at target are the
\* ones computed when the load completed, whatever drags, auto-rotation
\* frames and resizes came before.
C6_ResetRestoresView ==
    (last = [ev |-> "reset", threw |-> FALSE]) =>
        /\ rotation = NoRotation
        /\ camera.position = FitCamera(camera, NoRotation).position
        /\ camera.lookAt = FitCamera(camera, NoRotation).lookAt

\* C7, as stated: with the model loaded, the rotation equals the steps of the
\* finished drags and auto-rotation frames plus, for the current drag, its
\* last-move position minus its pressed position (x moves about y, y moves
\* about x).
C7_RotationFromPressed ==
    Loaded =>
        /\ rotation.x = Plus(tally.acc, HeldFromPress(tally)).x
        /\ rotation.y = Plus(tally.acc, HeldFromPress(tally)).y

\* C7, amended: with the model loaded, since the load or the last reset-view
\* click the y rotation is the sum over the drags of last handled move x minus
\* start x, plus the number of auto-rotation frames, and the x rotation the sum
\* over the drags of last handled move y minus start y, where a drag starts at
\* its pressed position, or, when the view was reset in the middle of it, at
\* the last pointer position recorded at that reset.
C7_RotationAccounting ==
    Loaded =>
        /\ rotation.x = Plus(tally.acc, HeldFrom(tally)).x
        /\ rotation.y = Plus(tally.acc, HeldFrom(tally)).y
        /\ rotation.z = 0

\* C7 witness: after auto-rotation frames and a finished drag, a drag that was
\* in progress at a reset has moved on from the position recorded there.
C7_Witness ==
    /\ Loaded
    /\ tally.moved
    /\ tally.press # tally.from
    /\ tally.final # tally.from
    /\ tally.acc.y # 0
    /\ rotation.x # 0

\* C8: the loading indicator is hidden exactly when the completion callback
\* has run; it is displayed until then, is never shown again once hidden, and
\* at the step that hides it the model is in the scene and the camera framed.
C8_IndicatorTracksLoad ==
    /\ [](loadingIndicator.display \in {"block", "none"})
    /\ [](loadingIndicator.display = "none" <=> loader.onLoad > 0)
    /\ [][loadingIndicator.display = "none" => loadingIndicator'.display = "none"]_vars
    /\ [][loadingIndicator.display # "none" /\ loadingIndicator'.display = "none" =>
            /\ model' = "gltf.scene"
            /\ sceneModels' = 1
            /\ camera' = FitCamera(camera, rotation')]_vars

\* C8 witness: the indicator is hidden and events have come since.
C8_Witness ==
    /\ loadingIndicator.display = "none"
    /\ last.ev = "resize"
    /\ sceneModels = 1

\* What the viewer owns besides the fields named in C9.
Others == <<model, sceneModels, loadingIndicator, loader, pendingFrames, stage>>

\* C9: a reset-view click leaves the auto-rotate flag, the drag flag and the
\* last pointer position unchanged; a toggle-rotation click changes only the
\* auto-rotate flag; a window resize changes only the renderer size and the
\* camera; mouseup and touchend change only the drag flag.
C9_FrameConditions ==
    /\ [][ResetView => UNCHANGED <<isAutoRotating, isDragging, previousPosition>>]_vars
    /\ [][ToggleRotation =>
            UNCHANGED <<isDragging, previousPosition, rotation, camera,
                        rendererSize, Others>>]_vars
    /\ [][OnWindowResize =>
            UNCHANGED <<rotation, isDragging, previousPosition, isAutoRotating,
                        Others>>]_vars
    /\ [][OnMouseUp \/ OnTouchEnd =>
            UNCHANGED <<isAutoRotating, previousPosition, rotation, camera,
                        rendererSize, Others>>]_vars

\* C9 witness: the view was reset during a drag with auto-rotation on, after
\* the model had been turned.
C9_Witness ==
    /\ last = [ev |-> "reset", threw |-> FALSE]
    /\ isDragging /\ isAutoRotating
    /\ previousPosition # Zero
    /\ camera.position # FitCamera(camera, NoRotation).position

\* Auto-rotation has reached the largest angle explored, where the frame
\* callback is cut off.
AtRotationBound == Loaded /\ isAutoRotating /\ rotation.y = MaxRot

\* C10: once animate() has been called, exactly one frame callback is pending
\* in every state, their number never grows, and frame callbacks run again and
\* again, also when the body of one fails and before the model is loaded.
C10_FrameLoop ==
    /\ [](stage = "running" => pendingFrames = 1)
    /\ [][stage = "running" => pendingFrames' <= pendingFrames]_vars
    /\ []<>(last.ev = "frame" \/ AtRotationBound)

\* C10 witness: a frame callback failed before the model was loaded and the
\* next one is pending.
C10_Witness ==
    /\ last = [ev |-> "frame", threw |-> TRUE]
    /\ model = "undefined"
    /\ pendingFrames = 1

\* The rotation after handleRotation(p.x, p.y) from the recorded position.
Rotated(p) ==
    [rotation EXCEPT !.y = @ + (p.x - previousPosition.x),
                     !.x = @ + (p.y - previousPosition.y)]

\* C11: mouse and touch share one drag session: while the drag flag is set,
\* however it was set, a mousemove or a touchmove rotates the model relative
\* to the last recorded position and records its own; a mouseup or a touchend
\* ends the drag; a press of either kind during a drag only overwrites the
\* last recorded position and rotates nothing.
C11_SharedDragSession ==
    /\ [][\A p \in Positions :
            isDragging /\ (Move("mousemove", p) \/ Move("touchmove", p)) =>
                /\ rotation' = Rotated(p)
                /\ previousPosition' = p]_vars
    /\ [][OnMouseUp \/ OnTouchEnd => ~isDragging']_vars
    /\ [][\A p \in Positions :
            isDragging /\ (Press("mousedown", p) \/ Press("touchstart", p)) =>
                /\ isDragging'
                /\ previousPosition' = p
                /\ rotation' = rotation]_vars

\* C11 with the model loaded: the same statement for the states in which there
\* is a model to rotate.
C11_SharedWhenLoaded ==
    /\ [][\A p \in Positions :
            Loaded /\ isDragging /\ (Move("mousemove", p) \/ Move("touchmove", p)) =>
                /\ rotation' = Rotated(p)
                /\ previousPosition' = p]_vars
    /\ [][OnMouseUp \/ OnTouchEnd => ~isDragging']_vars
    /\ [][\A p \in Positions :
            isDragging /\ (Press("mousedown", p) \/ Press("touchstart", p)) =>
                /\ isDragging'
                /\ previousPosition' = p
                /\ rotation' = rotation]_vars

\* A mouse, touch, click, resize or frame event.
HostEvent ==
    \/ OnMouseDown \/ OnMouseMove \/ OnMouseUp
    \/ OnTouchStart \/ OnTouchMove \/ OnTouchEnd
    \/ ResetView \/ ToggleRotation \/ OnWindowResize \/ AnimateFrame

\* C12: once destroy() has returned, every listener added by
\* setupEventListeners and setupControls is removed and no frame callback is
\* pending, so that no later event changes the viewer's state and the
\* disposed renderer is never rendered with.
C12_DestroyDetaches ==
    /\ [](renderer.disposed => listeners = {} /\ pendingFrames = 0)
    /\ [](~renderer.usedDisposed)
    /\ [][renderer.disposed /\ HostEvent =>
            UNCHANGED <<isAutoRotating, isDragging, previousPosition, rotation,
                        camera, rendererSize>>]_vars

====
